---- MODULE Spec2Model ----
(***************************************************************************)
(* State-machine model of src/bot.py: the Telegram front end (TelegramBot) *)
(* and the two-round relay of a human message to the AI providers          *)
(* (AIChat.process_message).                                               *)
(*                                                                         *)
(* Strings the code inspects character by character (provider responses,   *)
(* which are strip()ped and upper()ed) are sequences of one-character      *)
(* strings; strings the code only builds and passes on are tuples of their *)
(* parts.                                                                  *)
(*                                                                         *)
(* Two names the code reads are bound nowhere in bot.py: the global        *)
(* system_prompt (line 139) and the attribute AIChat.chat_history          *)
(* (line 204).  Reading an unbound name raises (NameError, AttributeError).*)
(* bound_names is the set of those names the embedding environment has     *)
(* bound; both outcomes of each read are part of the model.                *)
(*                                                                         *)
(* The python-telegram-bot Application of line 169 is built with its       *)
(* defaults (no concurrent_updates, blocking handlers): it awaits the      *)
(* handler of one update before it takes the next one.  SpecConcurrent is  *)
(* the same handlers run by an Application that processes updates          *)
(* concurrently.  Sends to Telegram (context.bot.send_message) are taken   *)
(* to succeed.                                                             *)
(***************************************************************************)
EXTENDS Integers, Sequences, FiniteSets, TLC

VARIABLES
    phase,            \* "boot" | "running" | "failed": position in main()
    concurrent_updates, \* does the Application process updates concurrently
    env_required,     \* are TELEGRAM_BOT_TOKEN and BOT_SECRET_KEY both set
    env_keys,         \* provider names whose API-key variable is set
    bound_names,      \* which of "system_prompt", "chat_history" are bound
    providers,        \* keys of AIChat.providers
    active_chats,     \* AIChat.active_chats: chat_id -> list of AI names
    authorized_chats, \* TelegramBot.authorized_chats
    chat_history,     \* AIChat.chat_history, where that attribute exists
    tasks,            \* the handler coroutines, by task slot
    last_payload      \* history variable of SpecHistory: the chat and the
                      \* messages of the latest provider request

vars == <<phase, concurrent_updates, env_required, env_keys, bound_names,
          providers, active_chats, authorized_chats, chat_history, tasks,
          last_payload>>

(* ----------------------- constants of the program ---------------------- *)

API_CONFIGS == <<"Claude", "GPT", "Grok", "DeepSeek">>

SECRET_KEY == "s3cret"

PASS == <<"P", "A", "S", "S">>

(* ------------------------------- inputs -------------------------------- *)

ChatIds == {101, 202}

TaskIds == {1, 2}

UserNames == {"Ann"}

MessageTexts == {<<"h", "e", "l", "l", "o">>}

StartArgs == {<<>>, <<SECRET_KEY>>, <<"wrong">>, <<SECRET_KEY, "extra">>}

AiArgs == {<<>>} \cup {<<API_CONFIGS[i]>> : i \in 1..Len(API_CONFIGS)}

\* The providers whose API key the environment may hold.
EnvKeyChoices == SUBSET {"Claude", "GPT"}

\* The names bot.py reads and binds nowhere.
FreeNames == {"system_prompt", "chat_history"}

\* What one POST to a provider can come back with: a 200 whose first
\* choice has the given content, another status with the given body text,
\* or an exception with the given str().
Outcomes ==
    { [kind |-> "ok",   text |-> <<" ", "p", "a", "s", "s", "\n">>],
      [kind |-> "ok",   text |-> <<"h", "i">>],
      [kind |-> "http", text |-> <<"5", "0", "3">>],
      [kind |-> "exc",  text |-> <<"t", "i", "m", "e", "o", "u", "t">>] }

(* --------------------------- string helpers ---------------------------- *)

Range(s) == {s[i] : i \in 1..Len(s)}

Whitespace == {" ", "\n", "\t", "\r"}

\* str.upper(), on the letters that occur in the model's strings.
UpperChar(c) ==
    CASE c = "p" -> "P"
      [] c = "a" -> "A"
      [] c = "s" -> "S"
      [] c = "h" -> "H"
      [] c = "i" -> "I"
      [] c = "r" -> "R"
      [] c = "o" -> "O"
      [] c = "t" -> "T"
      [] c = "m" -> "M"
      [] c = "e" -> "E"
      [] c = "u" -> "U"
      [] OTHER -> c

Upper(s) == [i \in 1..Len(s) |-> UpperChar(s[i])]

RECURSIVE LStrip(_)
LStrip(s) ==
    IF s # <<>> /\ Head(s) \in Whitespace THEN LStrip(Tail(s)) ELSE s

RECURSIVE RStrip(_)
RStrip(s) ==
    IF s # <<>> /\ s[Len(s)] \in Whitespace
    THEN RStrip(SubSeq(s, 1, Len(s) - 1))
    ELSE s

\* str.strip()
Strip(s) == RStrip(LStrip(s))

Chars(name) ==
    CASE name = "Claude"   -> <<"C", "l", "a", "u", "d", "e">>
      [] name = "GPT"      -> <<"G", "P", "T">>
      [] name = "Grok"     -> <<"G", "r", "o", "k">>
      [] name = "DeepSeek" -> <<"D", "e", "e", "p", "S", "e", "e", "k">>

ErrorPrefix == <<"E", "r", "r", "o", "r", ":", " ">>

ErrorRequestPrefix ==
    <<"E", "r", "r", "o", "r", " ", "m", "a", "k", "i", "n", "g", " ",
      "r", "e", "q", "u", "e", "s", "t", " ", "t", "o", " ">>

(* ------------------------- texts sent to a chat ------------------------ *)

HUMAN_TAG == "<human>["

AI_TAG == "<robot>["

ALREADY_AUTHORIZED == <<"This chat is already authorized and initialized.">>

UNAUTHORIZED == <<"Unauthorized. Please provide the correct secret key.">>

CHAT_AUTHORIZED ==
    <<"Chat authorized and initialized. Use /add_ai to add AI participants.">>

NOT_AUTHORIZED ==
    <<"This chat is not authorized. Use /start with the secret key to begin.">>

NO_PARTICIPANTS ==
    <<"This chat has no active AI participants. Use /start to begin.">>

NOT_INITIALIZED == <<"This chat has not been initialized. Use /start first.">>

SPECIFY_REMOVE == <<"Please specify an AI to remove">>

(* ------------------------------ AIChat --------------------------------- *)

\* Variant of validate_env_vars: the provider keys are not looked at.
validate_required_only(required, keys) == required

\* validate_env_vars: does startup get past it.
validate_env_vars(required, keys) ==
    /\ required
    /\ {API_CONFIGS[i] : i \in 1..Len(API_CONFIGS)} \cap keys # {}

\* AIChat.__init__: one provider per configured name whose key is set.
InitProviders(keys) ==
    {API_CONFIGS[i] : i \in {j \in 1..Len(API_CONFIGS) : API_CONFIGS[j] \in keys}}

\* Variant of make_ai_request: a failed request counts as a pass.
make_ai_request_quiet(ai_name, outcome) ==
    IF outcome.kind = "ok" THEN outcome.text ELSE PASS

\* _make_ai_request: the string it returns for what the POST came back with.
make_ai_request(ai_name, outcome) ==
    CASE outcome.kind = "ok"   -> outcome.text
      [] outcome.kind = "http" -> ErrorPrefix \o outcome.text
      [] outcome.kind = "exc"  ->
            ErrorRequestPrefix \o Chars(ai_name) \o <<":", " ">> \o outcome.text

\* Variant of NotPass: the response is compared as it came.
NotPassVerbatim(response) == response # PASS

\* The test of lines 151 and 162: response.strip().upper() != "PASS".
NotPass(response) == Upper(Strip(response)) # PASS

\* f"<human>[{user_name}]: {message_text}"
FormatUser(user_name, message_text) ==
    <<HUMAN_TAG, user_name, "]: ", message_text>>

\* f"<robot>[{ai_name}]: {response}"
FormatFirst(ai_name, response) == <<AI_TAG, ai_name, "]: ", response>>

\* f"<robot>[{ai_name}] (follow-up): {response}"
FormatFollowUp(ai_name, response) ==
    <<AI_TAG, ai_name, "] (follow-up): ", response>>

\* The messages list of lines 138-141.
InitialMessages(formatted_message) ==
    << [role |-> "system", content |-> <<"system_prompt">>],
       [role |-> "user",   content |-> formatted_message] >>

\* Line 156: messages + [{"role": "assistant", "content": r} for r in responses]
SecondRoundMessages(messages, responses) ==
    messages \o [i \in 1..Len(responses) |->
                    [role |-> "assistant", content |-> responses[i]]]

\* Variant of SecondRoundDue: a single response is enough.
SecondRoundDueAny(responses) == Len(responses) > 0

\* Line 155: is there a second round.
SecondRoundDue(responses) == Len(responses) > 1

\* Variant of Shuffles: draws with replacement.
Choices(list) == [1..Len(list) -> Range(list)]

\* random.shuffle: every ordering of the list.
Shuffles(list) ==
    {p \in [1..Len(list) -> Range(list)] :
        \A i, j \in 1..Len(list) : i # j => p[i] # p[j]}

(* --------------------------- handler tasks ----------------------------- *)

\* A slot that runs no handler.
IdleTask ==
    [ handler |-> "none", pc |-> "idle", chat_id |-> 0, args |-> <<>>,
      user_name |-> "",
      message_text |-> <<>>, messages |-> <<>>, second_round_messages |-> <<>>,
      ai_order |-> <<>>, round |-> 0, idx |-> 0, responses |-> <<>>,
      returned |-> FALSE, sent |-> <<>>, error |-> "", calls |-> <<>> ]

\* A command handler (of context.args args) that has run to its end, or
\* raised.
Finished(handler, chat_id, args, sent, error) ==
    [ IdleTask EXCEPT !.handler = handler, !.chat_id = chat_id,
                      !.args = args,
                      !.pc = IF error = "" THEN "done" ELSE "raised",
                      !.sent = sent, !.error = error ]

\* The slot holds a handler coroutine that has not been disposed of.
Running(t) == tasks[t].pc # "idle"

FreeSlots == {t \in TaskIds : ~Running(t)}

\* The slot the next handler coroutine runs in.
NextSlot == CHOOSE t \in FreeSlots : \A u \in FreeSlots : t <= u

\* Variant of CanDispatch: an application built with concurrent_updates.
CanDispatchConcurrently == FreeSlots # {}

\* The update fetcher of the Application: without concurrent_updates it
\* awaits the handler of one update before it takes the next, so an update
\* is dispatched only when no handler is running.
CanDispatch ==
    IF concurrent_updates
    THEN FreeSlots # {}
    ELSE \A t \in TaskIds : ~Running(t)

Dispatch(task) ==
    /\ phase = "running"
    /\ CanDispatch
    /\ tasks' = [tasks EXCEPT ![NextSlot] = task]

\* Variant of Put: every key is given the value, as if the chats held one
\* list between them.
PutShared(dict, key, value) == [k \in DOMAIN dict \cup {key} |-> value]

\* dict[key] = value
Put(dict, key, value) ==
    [k \in DOMAIN dict \cup {key} |-> IF k = key THEN value ELSE dict[k]]

\* list.remove(x): without the first occurrence of x.
Remove(list, x) ==
    LET i == CHOOSE j \in 1..Len(list) :
                 list[j] = x /\ \A k \in 1..(j - 1) : list[k] # x
    IN  SubSeq(list, 1, i - 1) \o SubSeq(list, i + 1, Len(list))

\* self.ai_chat.providers.keys(), in insertion order.
ProviderKeys == SelectSeq(API_CONFIGS, LAMBDA n : n \in providers)

(* ------------------------------- main() -------------------------------- *)

Main ==
    /\ phase = "boot"
    /\ IF validate_env_vars(env_required, env_keys)
       THEN /\ phase' = "running"
            /\ providers' = InitProviders(env_keys)
       ELSE /\ phase' = "failed"
            /\ UNCHANGED providers
    /\ UNCHANGED <<concurrent_updates, env_required, env_keys, bound_names,
                   active_chats, authorized_chats, chat_history, tasks,
                   last_payload>>

(* ---------------------------- TelegramBot ------------------------------ *)

\* Variant of Authorized: the handlers do not look at authorized_chats.
AuthorizedUnchecked(chat_id) == TRUE

\* The test of lines 215, 257, 288 and 311, negated.
Authorized(chat_id) == chat_id \in authorized_chats

\* Variant of AlreadyAuthorized: a /start is never taken for a repeated one.
AlreadyAuthorizedNever(chat_id) == FALSE

\* The test of line 186.
AlreadyAuthorized(chat_id) == chat_id \in authorized_chats

\* Variant of SecretRejected: only the first argument is looked at.
SecretRejectedFirstOnly(args) == args = <<>> \/ args[1] # SECRET_KEY

\* The test of line 194.
SecretRejected(args) == args = <<>> \/ Len(args) # 1 \/ args[1] # SECRET_KEY

\* Variant of start_command: the history entry is set before the participant
\* list is.
start_command_history_first(chat_id, args) ==
    /\ IF AlreadyAuthorized(chat_id)
       THEN /\ Dispatch(Finished("start", chat_id, args,
                                 <<ALREADY_AUTHORIZED>>, ""))
            /\ UNCHANGED <<authorized_chats, active_chats, chat_history>>
       ELSE IF SecretRejected(args)
       THEN /\ Dispatch(Finished("start", chat_id, args, <<UNAUTHORIZED>>, ""))
            /\ UNCHANGED <<authorized_chats, active_chats, chat_history>>
       ELSE /\ authorized_chats' = authorized_chats \cup {chat_id}
            /\ IF "chat_history" \in bound_names
               THEN /\ chat_history' = Put(chat_history, chat_id, <<>>)
                    /\ active_chats' = Put(active_chats, chat_id, <<>>)
                    /\ Dispatch(Finished("start", chat_id, args,
                                         <<CHAT_AUTHORIZED>>, ""))
               ELSE /\ UNCHANGED <<chat_history, active_chats>>
                    /\ Dispatch(Finished("start", chat_id, args, <<>>,
                                         "AttributeError"))
    /\ UNCHANGED <<phase, concurrent_updates, env_required, env_keys,
                   bound_names, providers,
                   last_payload>>

start_command(chat_id, args) ==
    /\ IF AlreadyAuthorized(chat_id)
       THEN /\ Dispatch(Finished("start", chat_id, args,
                                 <<ALREADY_AUTHORIZED>>, ""))
            /\ UNCHANGED <<authorized_chats, active_chats, chat_history>>
       ELSE IF SecretRejected(args)
       THEN /\ Dispatch(Finished("start", chat_id, args, <<UNAUTHORIZED>>, ""))
            /\ UNCHANGED <<authorized_chats, active_chats, chat_history>>
       ELSE /\ authorized_chats' = authorized_chats \cup {chat_id}
            /\ active_chats' = Put(active_chats, chat_id, <<>>)
            /\ IF "chat_history" \in bound_names
               THEN /\ chat_history' = Put(chat_history, chat_id, <<>>)
                    /\ Dispatch(Finished("start", chat_id, args,
                                         <<CHAT_AUTHORIZED>>, ""))
               ELSE /\ UNCHANGED chat_history
                    /\ Dispatch(Finished("start", chat_id, args, <<>>,
                                         "AttributeError"))
    /\ UNCHANGED <<phase, concurrent_updates, env_required, env_keys,
                   bound_names, providers,
                   last_payload>>

\* Variant of Known: the name is looked up in API_CONFIGS.
KnownConfigured(ai_name) == ai_name \in Range(API_CONFIGS)

\* The test of line 230, negated.
Known(ai_name) == ai_name \in providers

add_ai_command(chat_id, args) ==
    /\ IF ~Authorized(chat_id)
       THEN /\ Dispatch(Finished("add_ai", chat_id, args, <<NOT_AUTHORIZED>>, ""))
            /\ UNCHANGED active_chats
       ELSE IF args = <<>>
       THEN /\ Dispatch(Finished("add_ai", chat_id, args,
                  << <<"Please specify an AI to add. Available AIs: ",
                       ProviderKeys>> >>, ""))
            /\ UNCHANGED active_chats
       ELSE IF ~Known(args[1])
       THEN /\ Dispatch(Finished("add_ai", chat_id, args,
                                 << <<"Unknown AI: ", args[1]>> >>, ""))
            /\ UNCHANGED active_chats
       ELSE LET ai_name == args[1]
                chats == IF chat_id \notin DOMAIN active_chats
                         THEN Put(active_chats, chat_id, <<>>)
                         ELSE active_chats
            IN  IF ai_name \notin Range(chats[chat_id])
                THEN /\ active_chats' =
                            Put(chats, chat_id, Append(chats[chat_id], ai_name))
                     /\ Dispatch(Finished("add_ai", chat_id, args,
                            << <<"Added ", ai_name, " to the chat">> >>, ""))
                ELSE /\ active_chats' = chats
                     /\ Dispatch(Finished("add_ai", chat_id, args,
                            << <<ai_name, " is already in the chat">> >>, ""))
    /\ UNCHANGED <<phase, concurrent_updates, env_required, env_keys,
                   bound_names, providers,
                   authorized_chats, chat_history, last_payload>>

remove_ai_command(chat_id, args) ==
    /\ IF ~Authorized(chat_id)
       THEN /\ Dispatch(Finished("remove_ai", chat_id, args, <<NOT_AUTHORIZED>>, ""))
            /\ UNCHANGED active_chats
       ELSE IF args = <<>>
       THEN /\ Dispatch(Finished("remove_ai", chat_id, args, <<SPECIFY_REMOVE>>, ""))
            /\ UNCHANGED active_chats
       ELSE LET ai_name == args[1]
            IN  IF /\ chat_id \in DOMAIN active_chats
                   /\ ai_name \in Range(active_chats[chat_id])
                THEN /\ active_chats' = Put(active_chats, chat_id,
                            Remove(active_chats[chat_id], ai_name))
                     /\ Dispatch(Finished("remove_ai", chat_id, args,
                            << <<"Removed ", ai_name, " from the chat">> >>, ""))
                ELSE /\ UNCHANGED active_chats
                     /\ Dispatch(Finished("remove_ai", chat_id, args,
                            << <<ai_name, " is not in the chat">> >>, ""))
    /\ UNCHANGED <<phase, concurrent_updates, env_required, env_keys,
                   bound_names, providers,
                   authorized_chats, chat_history, last_payload>>

list_ai_command(chat_id) ==
    /\ IF ~Authorized(chat_id)
       THEN Dispatch(Finished("list_ai", chat_id, <<>>, <<NOT_AUTHORIZED>>, ""))
       ELSE IF chat_id \in DOMAIN active_chats
       THEN Dispatch(Finished("list_ai", chat_id, <<>>,
                << <<"AIs in this chat: ",
                     IF active_chats[chat_id] # <<>>
                     THEN active_chats[chat_id] ELSE <<"No AIs">> >> >>, ""))
       ELSE Dispatch(Finished("list_ai", chat_id, <<>>, <<NOT_INITIALIZED>>, ""))
    /\ UNCHANGED <<phase, concurrent_updates, env_required, env_keys,
                   bound_names, providers,
                   active_chats, authorized_chats, chat_history, last_payload>>

(* ----------------- process_message and handle_message ------------------ *)

\* What a provider is sent in the round the task is in (lines 150, 161).
Payload(tk) == IF tk.round = 1 THEN tk.messages ELSE tk.second_round_messages

\* Variant of Collect: the response is put at the front of the list.
CollectInFront(round, ai_name, response, responses) ==
    IF NotPass(response)
    THEN <<IF round = 1 THEN FormatFirst(ai_name, response)
                        ELSE FormatFollowUp(ai_name, response)>> \o responses
    ELSE responses

\* Lines 151-152 and 162-163: a response that is not a pass is appended.
Collect(round, ai_name, response, responses) ==
    IF NotPass(response)
    THEN Append(responses,
                IF round = 1 THEN FormatFirst(ai_name, response)
                             ELSE FormatFollowUp(ai_name, response))
    ELSE responses

\* Line 165, and the loop of lines 323-327 when there is nothing to send.
Return(tk) ==
    [tk EXCEPT !.returned = TRUE,
               !.pc = IF tk.responses = <<>> THEN "done" ELSE "deliver"]

\* provider = self.providers[ai_name] of lines 149 and 160, for the provider
\* whose turn it is: the request is next, or KeyError.
Lookup(tk) ==
    IF tk.ai_order[tk.idx] \in providers
    THEN [tk EXCEPT !.pc = "request"]
    ELSE [tk EXCEPT !.pc = "raised", !.error = "KeyError"]

\* Variant of Proceed: the second round is offered to the providers that
\* responded in the first.
ProceedResponders(tk, order2) ==
    IF tk.idx <= Len(tk.ai_order)
    THEN Lookup(tk)
    ELSE IF tk.round = 1 /\ SecondRoundDue(tk.responses)
    THEN Lookup([tk EXCEPT !.round = 2, !.idx = 1,
                    !.ai_order = SelectSeq(order2, LAMBDA n :
                        \E k \in 1..Len(tk.responses) : tk.responses[k][2] = n),
                    !.second_round_messages =
                        SecondRoundMessages(tk.messages, tk.responses)])
    ELSE Return(tk)

\* From one await of process_message to the next: the next provider of the
\* round, or the second round (in the order order2), or the return.
Proceed(tk, order2) ==
    IF tk.idx <= Len(tk.ai_order)
    THEN Lookup(tk)
    ELSE IF tk.round = 1 /\ SecondRoundDue(tk.responses)
    THEN Lookup([tk EXCEPT !.round = 2, !.idx = 1, !.ai_order = order2,
                    !.second_round_messages =
                        SecondRoundMessages(tk.messages, tk.responses)])
    ELSE Return(tk)

\* Variant of RoundList: the second round goes over the chat's list as it
\* is by then.
RoundListLive(tk) == IF tk.round > 0 THEN active_chats[tk.chat_id] ELSE <<>>

\* The list random.shuffle(ai_order) of line 158 shuffles: the local
\* ai_order, the copy made at line 145.
RoundList(tk) == tk.ai_order

\* process_message up to its first await.
process_message(chat_id, user_name, message_text, order) ==
    LET tk == [IdleTask EXCEPT !.handler = "message", !.chat_id = chat_id,
                               !.user_name = user_name,
                               !.message_text = message_text]
    IN  IF chat_id \notin DOMAIN active_chats
        THEN Return([tk EXCEPT !.responses = <<NO_PARTICIPANTS>>])
        ELSE IF "system_prompt" \notin bound_names
        THEN [tk EXCEPT !.pc = "raised", !.error = "NameError"]
        ELSE Proceed([tk EXCEPT
                        !.messages =
                            InitialMessages(FormatUser(user_name, message_text)),
                        !.ai_order = order, !.round = 1, !.idx = 1],
                     order)

handle_message(chat_id, user_name, message_text) ==
    /\ IF ~Authorized(chat_id)
       THEN Dispatch(Finished("message", chat_id, <<>>, <<NOT_AUTHORIZED>>, ""))
       ELSE \E order \in Shuffles(IF chat_id \in DOMAIN active_chats
                                  THEN active_chats[chat_id] ELSE <<>>) :
                Dispatch(process_message(chat_id, user_name, message_text,
                                         order))
    /\ UNCHANGED <<phase, concurrent_updates, env_required, env_keys,
                   bound_names, providers,
                   active_chats, authorized_chats, chat_history, last_payload>>

\* session.post(...) of line 119: the request of the provider whose turn
\* it is goes out.  With record, the request is noted in last_payload.
ProviderRequest(t, record) ==
    /\ tasks[t].pc = "request"
    /\ tasks' = [tasks EXCEPT ![t].pc = "await"]
    /\ last_payload' =
           IF record
           THEN [chat_id |-> tasks[t].chat_id, messages |-> Payload(tasks[t])]
           ELSE last_payload
    /\ UNCHANGED <<phase, concurrent_updates, env_required, env_keys,
                   bound_names, providers,
                   active_chats, authorized_chats, chat_history>>

\* The awaited _make_ai_request returns, and process_message runs on to its
\* next await.
ProviderResponse(t, outcome, order2) ==
    /\ tasks[t].pc = "await"
    /\ LET tk == tasks[t]
           ai_name == tk.ai_order[tk.idx]
           response == make_ai_request(ai_name, outcome)
       IN  tasks' = [tasks EXCEPT ![t] =
              Proceed([tk EXCEPT
                         !.responses =
                             Collect(tk.round, ai_name, response, tk.responses),
                         !.idx = tk.idx + 1,
                         !.calls = Append(tk.calls,
                             [round |-> tk.round, ai_name |-> ai_name,
                              messages |-> Payload(tk), kind |-> outcome.kind,
                              response |-> response])],
                      order2)]
    /\ UNCHANGED <<phase, concurrent_updates, env_required, env_keys,
                   bound_names, providers,
                   active_chats, authorized_chats, chat_history, last_payload>>

\* One turn of the loop of lines 323-327.
Deliver(t) ==
    /\ tasks[t].pc = "deliver"
    /\ LET tk == tasks[t]
           sent == Append(tk.sent, tk.responses[Len(tk.sent) + 1])
       IN  tasks' = [tasks EXCEPT ![t] =
              [tk EXCEPT !.sent = sent,
                         !.pc = IF Len(sent) = Len(tk.responses)
                                THEN "done" ELSE "deliver"]]
    /\ UNCHANGED <<phase, concurrent_updates, env_required, env_keys,
                   bound_names, providers,
                   active_chats, authorized_chats, chat_history, last_payload>>

\* The handler has returned or raised: the application is done with the
\* update (an exception is logged) and the coroutine is gone.
HandlerEnd(t) ==
    /\ tasks[t].pc \in {"done", "raised"}
    /\ tasks' = [tasks EXCEPT ![t] = IdleTask]
    /\ UNCHANGED <<phase, concurrent_updates, env_required, env_keys,
                   bound_names, providers,
                   active_chats, authorized_chats, chat_history, last_payload>>

(* --------------------------- specification ----------------------------- *)

\* The state in which main() starts, for the given choices of provider
\* keys held by the environment and of free names bound, and for an
\* Application that does or does not process updates concurrently (the one
\* of line 169 does not).
Boot(key_choices, name_choices, concurrent) ==
    /\ phase = "boot"
    /\ concurrent_updates = concurrent
    /\ env_required \in BOOLEAN
    /\ env_keys \in key_choices
    /\ bound_names \in name_choices
    /\ providers = {}
    /\ active_chats = [c \in {} |-> <<>>]
    /\ authorized_chats = {}
    /\ chat_history = [c \in {} |-> <<>>]
    /\ tasks = [t \in TaskIds |-> IdleTask]
    /\ last_payload = [chat_id |-> 0, messages |-> <<>>]

\* The steps of the program other than a provider request, for updates of
\* the given chats and the given outcomes of provider requests.
Step(chats, outcomes) ==
    \/ Main
    \/ \E chat_id \in chats, args \in StartArgs : start_command(chat_id, args)
    \/ \E chat_id \in chats, args \in AiArgs : add_ai_command(chat_id, args)
    \/ \E chat_id \in chats, args \in AiArgs : remove_ai_command(chat_id, args)
    \/ \E chat_id \in chats : list_ai_command(chat_id)
    \/ \E chat_id \in chats, user_name \in UserNames,
          message_text \in MessageTexts :
            handle_message(chat_id, user_name, message_text)
    \/ \E t \in TaskIds, outcome \in outcomes :
          \E order2 \in Shuffles(RoundList(tasks[t])) :
              ProviderResponse(t, outcome, order2)
    \/ \E t \in TaskIds : Deliver(t)
    \/ \E t \in TaskIds : HandlerEnd(t)

Init == Boot(EnvKeyChoices, SUBSET FreeNames, FALSE)

Next ==
    \/ Step(ChatIds, Outcomes)
    \/ \E t \in TaskIds : ProviderRequest(t, FALSE)

Spec == Init /\ [][Next]_vars

\* The program with both provider keys set and both free names bound, and
\* with the provider requests noted in last_payload.
InitHistory == Boot({{"Claude", "GPT"}}, {FreeNames}, FALSE) /\ env_required

NextHistory ==
    \/ Step(ChatIds, Outcomes)
    \/ \E t \in TaskIds : ProviderRequest(t, TRUE)

SpecHistory == InitHistory /\ [][NextHistory]_vars

\* The program with three provider keys set and both free names bound, for
\* the updates of one chat and the provider requests that come back with
\* status 200.
InitThree ==
    Boot({{"Claude", "GPT", "Grok"}}, {FreeNames}, FALSE) /\ env_required

NextThree ==
    \/ Step({101}, {o \in Outcomes : o.kind = "ok"})
    \/ \E t \in TaskIds : ProviderRequest(t, FALSE)

SpecThree == InitThree /\ [][NextThree]_vars

\* The program with both provider keys set and both free names bound, run
\* by an Application that processes updates concurrently, for the updates
\* of one chat and the provider requests that come back with status 200.
InitConcurrent == Boot({{"Claude", "GPT"}}, {FreeNames}, TRUE) /\ env_required

NextConcurrent ==
    \/ Step({101}, {o \in Outcomes : o.kind = "ok"})
    \/ \E t \in TaskIds : ProviderRequest(t, FALSE)

SpecConcurrent == InitConcurrent /\ [][NextConcurrent]_vars

(* ------------------------- terms of the claims ------------------------- *)

MessageTasks == {t \in TaskIds : tasks[t].handler = "message"}

\* The text is PASS in any letter case, with nothing but whitespace around.
SaysPass(text) ==
    \E i \in 1..Len(text) :
        /\ i + 3 <= Len(text)
        /\ text[i] \in {"p", "P"}
        /\ text[i + 1] \in {"a", "A"}
        /\ text[i + 2] \in {"s", "S"}
        /\ text[i + 3] \in {"s", "S"}
        /\ \A k \in 1..Len(text) : (k < i \/ k > i + 3) => text[k] \in Whitespace

\* The provider calls of a round, as indices of the task's call log.
CallsOf(tk, round) == {i \in 1..Len(tk.calls) : tk.calls[i].round = round}

NonPassCallsOf(tk, round) ==
    {i \in CallsOf(tk, round) : ~SaysPass(tk.calls[i].response)}

Round2Ran(tk) == CallsOf(tk, 2) # {}

\* An entry of a message list or of the returned list that carries the
\* response of the given call.
Carries(content, call) ==
    /\ Len(content) = 4
    /\ content[1] = AI_TAG
    /\ content[2] = call.ai_name
    /\ content[3] = (IF call.round = 1 THEN "]: " ELSE "] (follow-up): ")
    /\ content[4] = call.response

IsPrefix(s, u) == Len(s) <= Len(u) /\ SubSeq(u, 1, Len(s)) = s

(* ------------------------------- claims -------------------------------- *)

C3_CallCounts ==
    \A t \in MessageTasks :
        LET tk == tasks[t]
            active == active_chats[tk.chat_id]
            By(round, name) == {i \in CallsOf(tk, round) : tk.calls[i].ai_name = name}
        IN  /\ tk.pc \in {"deliver", "done", "raised"}
            /\ tk.chat_id \in authorized_chats
            => /\ Len(tk.calls) >= Len(active)
               /\ Len(tk.calls) <= 2 * Len(active)
               /\ \A i \in 1..Len(active) :
                     /\ Cardinality(By(1, active[i])) = 1
                     /\ Round2Ran(tk) => Cardinality(By(2, active[i])) = 1

\* C3, where process_message returns: the counts of C3 hold of every
\* process_message that got past line 139.
C3_CallCountsOnReturn ==
    \A t \in MessageTasks :
        LET tk == tasks[t]
            active == active_chats[tk.chat_id]
            By(round, name) == {i \in CallsOf(tk, round) : tk.calls[i].ai_name = name}
        IN  tk.returned /\ tk.round > 0
            => /\ Len(tk.calls) >= Len(active)
               /\ Len(tk.calls) <= 2 * Len(active)
               /\ \A i \in 1..Len(active) :
                     /\ Cardinality(By(1, active[i])) = 1
                     /\ Round2Ran(tk) => Cardinality(By(2, active[i])) = 1

Failed(call) == call.kind # "ok"

\* The providers called in a round, in call order.
CalledIn(tk, round) ==
    LET cs == SelectSeq(tk.calls, LAMBDA c : c.round = round)
    IN  [i \in 1..Len(cs) |-> cs[i].ai_name]

Author(content) ==
    IF Len(content) = 4 /\ content[1] = AI_TAG THEN content[2] ELSE ""

Started(t) == tasks[t].pc = "idle" /\ tasks'[t].pc # "idle"

\* C11: a chat becomes authorized only in a step that processes a /start for
\* that chat whose arguments are exactly the secret; a step that processes a
\* /start with no argument, with more than one argument or with a wrong
\* argument leaves authorized_chats as it is and gives the chat no
\* participant list.
C11_AuthorizedOnlyBySecret ==
    [][\A c \in ChatIds :
          /\ (c \in authorized_chats' /\ c \notin authorized_chats) =>
                \E t \in TaskIds :
                    /\ Started(t)
                    /\ tasks'[t].handler = "start"
                    /\ tasks'[t].chat_id = c
                    /\ tasks'[t].args = <<SECRET_KEY>>
          /\ (\E t \in TaskIds :
                    /\ Started(t)
                    /\ tasks'[t].handler = "start"
                    /\ tasks'[t].chat_id = c
                    /\ tasks'[t].args # <<SECRET_KEY>>) =>
                /\ authorized_chats' = authorized_chats
                /\ DOMAIN active_chats' = DOMAIN active_chats
                /\ c \notin authorized_chats =>
                       tasks' \in [TaskIds -> {IdleTask,
                           Finished("start", c, <<>>, <<UNAUTHORIZED>>, ""),
                           Finished("start", c, <<"wrong">>,
                                    <<UNAUTHORIZED>>, ""),
                           Finished("start", c, <<SECRET_KEY, "extra">>,
                                    <<UNAUTHORIZED>>, "")}]
      ]_vars

\* A /start with a second argument after the secret has been turned down for
\* a chat, which is not authorized and has no participant list, while the
\* other chat has been authorized.
C11_Witness ==
    \E t \in TaskIds :
        /\ tasks[t].handler = "start"
        /\ tasks[t].args = <<SECRET_KEY, "extra">>
        /\ tasks[t].sent = <<UNAUTHORIZED>>
        /\ tasks[t].chat_id \notin authorized_chats
        /\ tasks[t].chat_id \notin DOMAIN active_chats
        /\ authorized_chats # {}

\* A step of a handler run for the chat: the run starts, goes on or ends.
ActsFor(c) ==
    \E t \in TaskIds :
        /\ tasks'[t] # tasks[t]
        /\ c \in {tasks[t].chat_id, tasks'[t].chat_id}

\* The participant list of a chat, if it has one.
ActiveOf(chats, c) == IF c \in DOMAIN chats THEN <<chats[c]>> ELSE <<>>

C13_StartupNeedsAProvider ==
    /\ (~env_required \/ env_keys = {}) => phase # "running"
    /\ phase = "failed" =>
           /\ ~env_required \/ env_keys = {}
           /\ providers = {}
           /\ authorized_chats = {}
           /\ \A t \in TaskIds : tasks[t] = IdleTask
    /\ phase = "running" =>
           /\ providers # {}
           /\ providers = {n \in Range(API_CONFIGS) : n \in env_keys}

\* Startup has failed with the required variables set and no provider key.
C13_Witness == phase = "failed" /\ env_required /\ env_keys = {}

\* C14 (as stated): a message of an authorized chat never ends with
\* process_message raising instead of returning its list.
C14_ProcessMessageReturns ==
    \A t \in MessageTasks :
        tasks[t].chat_id \in authorized_chats =>
            tasks[t].pc # "raised" /\ tasks[t].error = ""

\* C15 (as stated): a /start with the secret on a chat that was not
\* authorized runs to its end: the chat is authorized, its participant list
\* is empty, an empty history is there for it, and the confirmation has been
\* sent.
C15_StartRunsToCompletion ==
    \A t \in TaskIds :
        LET tk == tasks[t]
        IN  /\ tk.handler = "start"
            /\ tk.args = <<SECRET_KEY>>
            /\ tk.sent # <<ALREADY_AUTHORIZED>>
            => /\ tk.pc = "done"
               /\ tk.chat_id \in authorized_chats
               /\ ActiveOf(active_chats, tk.chat_id) = << <<>> >>
               /\ ActiveOf(chat_history, tk.chat_id) = << <<>> >>
               /\ tk.sent = <<CHAT_AUTHORIZED>>

\* C16: a step that starts add_ai, remove_ai, list_ai or the message
\* handler for a chat that is not authorized leaves authorized_chats and
\* active_chats as they are, and the handler ends at once having sent the
\* 'not authorized' notice and nothing else, with no provider called.
C16_UnauthorizedChangesNothing ==
    [][\A t \in TaskIds :
          /\ Started(t)
          /\ tasks'[t].handler
                 \in {"add_ai", "remove_ai", "list_ai", "message"}
          /\ tasks'[t].chat_id \notin authorized_chats
          => /\ authorized_chats' = authorized_chats
             /\ active_chats' = active_chats
             /\ tasks'[t].pc = "done"
             /\ tasks'[t].sent = <<NOT_AUTHORIZED>>
             /\ tasks'[t].calls = <<>>
             /\ tasks'[t].ai_order = <<>>
             /\ tasks'[t].error = ""
      ]_vars

\* A message of a chat that is not authorized has been turned down while the
\* other chat is authorized and has a participant.
C16_Witness ==
    \E t \in MessageTasks :
        /\ tasks[t].chat_id \notin authorized_chats
        /\ tasks[t].sent = <<NOT_AUTHORIZED>>
        /\ \E a \in authorized_chats : active_chats[a] # <<>>

\* No element is in the list twice.
NoDuplicates(list) ==
    \A i, j \in 1..Len(list) : i # j => list[i] # list[j]

\* C17: every participant list holds keys of the provider map only and no
\* name twice, and so does the order of every message being processed; no
\* provider lookup of process_message fails and no provider is called twice
\* in a round; and an add_ai of a name that is unknown or already in the list
\* leaves active_chats as it is.
C17_ParticipantsAreProviders ==
    /\ [](/\ \A c \in DOMAIN active_chats :
                /\ Range(active_chats[c]) \subseteq providers
                /\ NoDuplicates(active_chats[c])
          /\ \A t \in MessageTasks :
                /\ Range(tasks[t].ai_order) \subseteq providers
                /\ NoDuplicates(tasks[t].ai_order)
                /\ tasks[t].error # "KeyError"
                /\ NoDuplicates(CalledIn(tasks[t], 1))
                /\ NoDuplicates(CalledIn(tasks[t], 2)))
    /\ [][\A t \in TaskIds :
             /\ Started(t)
             /\ tasks'[t].handler = "add_ai"
             /\ tasks'[t].args # <<>>
             /\ tasks'[t].chat_id \in DOMAIN active_chats
             /\ \/ tasks'[t].args[1] \notin providers
                \/ tasks'[t].args[1]
                       \in Range(active_chats[tasks'[t].chat_id])
             => active_chats' = active_chats
         ]_vars

\* A chat has two participants and an add_ai of one of them has been
\* answered with 'is already in the chat'.
C17_Witness ==
    \E t \in TaskIds :
        LET tk == tasks[t]
        IN  /\ tk.handler = "add_ai"
            /\ tk.args # <<>>
            /\ tk.chat_id \in DOMAIN active_chats
            /\ tk.sent = << <<tk.args[1], " is already in the chat">> >>
            /\ Len(active_chats[tk.chat_id]) = 2
            /\ tk.args[1] \in Range(active_chats[tk.chat_id])

\* C18: the chats that have a participant list are the authorized chats,
\* also after a /start that raised; no message is answered with 'This chat
\* has no active AI participants' and no /list_ai with 'This chat has not
\* been initialized'.
C18_ActiveChatsAreAuthorized ==
    /\ DOMAIN active_chats = authorized_chats
    /\ \A t \in TaskIds :
          /\ \A k \in 1..Len(tasks[t].responses) :
                 tasks[t].responses[k] # NO_PARTICIPANTS
          /\ \A k \in 1..Len(tasks[t].sent) :
                 tasks[t].sent[k] \notin {NO_PARTICIPANTS, NOT_INITIALIZED}

\* A /start with the secret has raised part-way, and the chat is authorized
\* and has its participant list.
C18_Witness ==
    \E t \in TaskIds :
        /\ tasks[t].handler = "start"
        /\ tasks[t].pc = "raised"
        /\ tasks[t].chat_id \in authorized_chats
        /\ tasks[t].chat_id \in DOMAIN active_chats

\* C19: no step takes a chat out of authorized_chats, and a step that starts
\* a /start for a chat that is authorized, whatever its arguments, leaves
\* authorized_chats and active_chats as they are and answers 'already
\* authorized'.
C19_AuthorizationIsKept ==
    [][/\ authorized_chats \subseteq authorized_chats'
       /\ \A t \in TaskIds :
             /\ Started(t)
             /\ tasks'[t].handler = "start"
             /\ tasks'[t].chat_id \in authorized_chats
             => /\ authorized_chats' = authorized_chats
                /\ active_chats' = active_chats
                /\ tasks'[t].sent = <<ALREADY_AUTHORIZED>>
                /\ tasks'[t].pc = "done"
      ]_vars

\* A /start with the secret has been answered 'already authorized' for a
\* chat that has its two participants.
C19_Witness ==
    \E t \in TaskIds :
        /\ tasks[t].handler = "start"
        /\ tasks[t].args = <<SECRET_KEY>>
        /\ tasks[t].sent = <<ALREADY_AUTHORIZED>>
        /\ tasks[t].chat_id \in authorized_chats
        /\ Len(active_chats[tasks[t].chat_id]) = 2

\* The handler run of slot t goes on in the step as a message that has got
\* to its rounds.
GoesOn(t) ==
    /\ tasks[t].handler = "message"
    /\ tasks[t].round > 0
    /\ tasks'[t].pc # "idle"

====
